---- MODULE Spec2Model ----
(***************************************************************************)
(* Model of js-part-0: the type classifier (getType, getRealType), the     *)
(* list analyzers (allItemsHaveTheSameType, everyItemHasAUniqueRealType,   *)
(* countRealTypes), the equality helper areEqual and the console test      *)
(* runner (testBlock, test), as written in index.ts (src/unnamed/part_000) *)
(* and in the starter index.js (src/index.js).                             *)
(***************************************************************************)
EXTENDS Integers, Sequences, FiniteSets, TLC

VARIABLES
    args,    \* the operands of the function under call
    fn,      \* the function applied last ("none" before the first call)
    ret,     \* what that call returned
    script,  \* what drives the runner: "index.ts" or "index.js" (the file's own
             \* statements), "any.ts" or "any.js" (any calls of that file's
             \* testBlock and test), "none" (the runner is not used)
    pc,      \* number of runner calls executed so far
    halted,  \* whether an uncaught exception has ended the script
    calls,   \* the testBlock / test calls made so far, in order
    groups,  \* the console's stack of open groups
    out      \* the console's output, one record per emitted line

vars == <<args, fn, ret, script, pc, halted, calls, groups, out>>

(***************************************************************************)
(* Bounds of the model.                                                    *)
(***************************************************************************)
MaxProtos == 2      \* built-in prototypes on one value's prototype chain
MaxLen == 3         \* length of an input array of the list analyzers
MaxEqLen == 2       \* length of an array operand of areEqual
MaxInnerLen == 1    \* length of an array nested in an operand of areEqual
MaxRefs == 1        \* nested array objects that may be referenced more than once
MaxCalls == 3       \* runner calls in a free sequence of calls

(***************************************************************************)
(* Values as the classifier observes them: the typeof tag, Array.isArray,  *)
(* the built-in prototypes found by instanceof, the special numbers, null, *)
(* and a callable's name.                                                  *)
(***************************************************************************)
TypeTags ==
    {"boolean", "number", "string", "object", "function", "undefined", "symbol", "bigint"}

Classes == {"Date", "RegExp", "Set", "Map", "Error", "ArrayBuffer", "Blob"}

Prim(t) ==
    [typ |-> t, isArray |-> FALSE, protos |-> {}, num |-> "none", isNull |-> FALSE, name |-> ""]

Number(n) == [Prim("number") EXCEPT !.num = n]

Null == [Prim("object") EXCEPT !.isNull = TRUE]

Undefined == Prim("undefined")

Object(isArr, P) == [Prim("object") EXCEPT !.isArray = isArr, !.protos = P]

Function(nm, P) == [Prim("function") EXCEPT !.name = nm, !.protos = P]

ProtoSets == {P \in SUBSET Classes : Cardinality(P) <= MaxProtos}

\* Every value of the runtime, up to what the classifier can observe of it.
\* instanceof is false of a primitive and of null; an array is never callable.
Values ==
    {Prim(t) : t \in {"boolean", "string", "undefined", "symbol", "bigint"}}
    \cup {Number(n) : n \in {"finite", "NaN", "Infinity", "-Infinity"}}
    \cup {Null}
    \cup {Object(a, P) : a \in BOOLEAN, P \in ProtoSets}
    \cup {Function(nm, P) : nm \in {"", "GeneratorFunction"}, P \in ProtoSets}

(***************************************************************************)
(* Values as the equality helper and the console see them.                 *)
(* An array is a length and the indices that are present (a hole is an     *)
(* index below length that is absent); ref is its identity, and ref 0 is   *)
(* an allocation no other reference aliases.                               *)
(***************************************************************************)
Undef == [k |-> "undefined"]
NullV == [k |-> "null"]
NaNV == [k |-> "NaN"]
Bool(b) == [k |-> "boolean", b |-> b]
Num(n) == [k |-> "number", n |-> n]
Str(s) == [k |-> "string", s |-> s]
Arr(r, n, e) == [k |-> "array", ref |-> r, length |-> n, elems |-> e]
Dense(seq) == Arr(0, Len(seq), seq)

\* a[i]: reading an absent index yields undefined.
Get(a, i) == IF i \in DOMAIN a.elems THEN a.elems[i] ELSE Undef

\* The values an array's iterator yields (for..of, new Set(array)): every index
\* below length, holes included.
Iterate(a) == [i \in 1..a.length |-> Get(a, i)]

(***************************************************************************)
(* The input of a list analyzer: an array of values, possibly with holes,  *)
(* or null / undefined.                                                    *)
(***************************************************************************)
List(n, e) == [kind |-> "array", length |-> n, elems |-> e]
NoList(kd) == [kind |-> kd, length |-> 0, elems |-> <<>>]
Elem(arr, i) == IF i \in DOMAIN arr.elems THEN arr.elems[i] ELSE Undefined
Items(arr) == [i \in 1..arr.length |-> Elem(arr, i)]

(***************************************************************************)
(* Type classifier.                                                        *)
(***************************************************************************)
getType(value) == value.typ

\* index.ts: arr.map(getType). map keeps the length and skips absent indices.
getTypesOfItems(arr) ==
    Arr(0, arr.length, [i \in DOMAIN arr.elems |-> Str(getType(arr.elems[i]))])

\* index.js: for (const el of arr) typesArr.push(getType(el)).
getTypesOfItems_js(arr) ==
    Dense([i \in 1..arr.length |-> Str(getType(Items(arr)[i]))])

SetOf(a) == {Iterate(a)[i] : i \in 1..a.length}

allItemsHaveTheSameType(arr) ==
    IF arr.length > 0 THEN Cardinality(SetOf(getTypesOfItems(arr))) = 1 ELSE TRUE

allItemsHaveTheSameType_js(arr) ==
    IF arr.length > 0 THEN Cardinality(SetOf(getTypesOfItems_js(arr))) = 1 ELSE TRUE

\* The RegExp check tried before the Date check.
getRealType_swapped(value) ==
    IF value.isArray THEN "array"
    ELSE IF "RegExp" \in value.protos THEN "regexp"
    ELSE IF "Date" \in value.protos THEN "date"
    ELSE IF "Set" \in value.protos THEN "set"
    ELSE IF "Map" \in value.protos THEN "map"
    ELSE IF "Error" \in value.protos THEN "error"
    ELSE IF "ArrayBuffer" \in value.protos THEN "buffer"
    ELSE IF "Blob" \in value.protos THEN "blob"
    ELSE IF value.num = "NaN" THEN "NaN"
    ELSE IF value.isNull THEN "null"
    ELSE IF value.num = "Infinity" THEN "Infinity"
    ELSE IF value.typ = "function" /\ value.name = "GeneratorFunction" THEN "generator function"
    ELSE value.typ

\* The global isNaN in place of Number.isNaN: it coerces, and undefined coerces to NaN.
getRealType_isNaN(value) ==
    IF value.isArray THEN "array"
    ELSE IF "Date" \in value.protos THEN "date"
    ELSE IF "RegExp" \in value.protos THEN "regexp"
    ELSE IF "Set" \in value.protos THEN "set"
    ELSE IF "Map" \in value.protos THEN "map"
    ELSE IF "Error" \in value.protos THEN "error"
    ELSE IF "ArrayBuffer" \in value.protos THEN "buffer"
    ELSE IF "Blob" \in value.protos THEN "blob"
    ELSE IF value.num = "NaN" \/ value.typ = "undefined" THEN "NaN"
    ELSE IF value.isNull THEN "null"
    ELSE IF value.num = "Infinity" THEN "Infinity"
    ELSE IF value.typ = "function" /\ value.name = "GeneratorFunction" THEN "generator function"
    ELSE value.typ

getRealType(value) ==
    IF value.isArray THEN "array"
    ELSE IF "Date" \in value.protos THEN "date"
    ELSE IF "RegExp" \in value.protos THEN "regexp"
    ELSE IF "Set" \in value.protos THEN "set"
    ELSE IF "Map" \in value.protos THEN "map"
    ELSE IF "Error" \in value.protos THEN "error"
    ELSE IF "ArrayBuffer" \in value.protos THEN "buffer"
    ELSE IF "Blob" \in value.protos THEN "blob"
    ELSE IF value.num = "NaN" THEN "NaN"
    ELSE IF value.isNull THEN "null"
    ELSE IF value.num = "Infinity" THEN "Infinity"
    ELSE IF value.typ = "function" /\ value.name = "GeneratorFunction" THEN "generator function"
    ELSE value.typ

\* for (const el of arr) realTypesArr.push(getRealType(el)): a dense array.
getRealTypesOfItems(arr) == [i \in 1..arr.length |-> getRealType(Items(arr)[i])]

RealTypeSet(arr) == {getRealTypesOfItems(arr)[i] : i \in 1..arr.length}

\* The set built from the coarse tags instead of the real ones.
everyItemHasAUniqueRealType_coarse(arr) ==
    IF arr.length > 0 THEN Cardinality(SetOf(getTypesOfItems(arr))) = arr.length ELSE TRUE

everyItemHasAUniqueRealType(arr) ==
    IF arr.length > 0 THEN Cardinality(RealTypeSet(arr)) = arr.length ELSE TRUE

(***************************************************************************)
(* countRealTypes.                                                         *)
(***************************************************************************)
RealTypeTags ==
    TypeTags \cup {"array", "date", "regexp", "set", "map", "error", "buffer", "blob",
                   "NaN", "null", "Infinity", "generator function"}

\* The UTF-16 code units of the tag strings, which Array.prototype.sort compares.
CodeUnits ==
    [s \in RealTypeTags |->
    CASE s = "array" -> <<97, 114, 114, 97, 121>>
      [] s = "date" -> <<100, 97, 116, 101>>
      [] s = "regexp" -> <<114, 101, 103, 101, 120, 112>>
      [] s = "set" -> <<115, 101, 116>>
      [] s = "map" -> <<109, 97, 112>>
      [] s = "error" -> <<101, 114, 114, 111, 114>>
      [] s = "buffer" -> <<98, 117, 102, 102, 101, 114>>
      [] s = "blob" -> <<98, 108, 111, 98>>
      [] s = "NaN" -> <<78, 97, 78>>
      [] s = "null" -> <<110, 117, 108, 108>>
      [] s = "Infinity" -> <<73, 110, 102, 105, 110, 105, 116, 121>>
      [] s = "generator function" ->
            <<103, 101, 110, 101, 114, 97, 116, 111, 114, 32, 102, 117, 110, 99, 116, 105, 111, 110>>
      [] s = "boolean" -> <<98, 111, 111, 108, 101, 97, 110>>
      [] s = "number" -> <<110, 117, 109, 98, 101, 114>>
      [] s = "string" -> <<115, 116, 114, 105, 110, 103>>
      [] s = "object" -> <<111, 98, 106, 101, 99, 116>>
      [] s = "function" -> <<102, 117, 110, 99, 116, 105, 111, 110>>
      [] s = "undefined" -> <<117, 110, 100, 101, 102, 105, 110, 101, 100>>
      [] s = "symbol" -> <<115, 121, 109, 98, 111, 108>>
      [] s = "bigint" -> <<98, 105, 103, 105, 110, 116>>]

RECURSIVE UnitsLess(_, _)
UnitsLess(x, y) ==
    IF y = <<>> THEN FALSE
    ELSE IF x = <<>> THEN TRUE
    ELSE IF Head(x) # Head(y) THEN Head(x) < Head(y)
    ELSE UnitsLess(Tail(x), Tail(y))

\* The default sort order: x before y when x's code units come first.
SortCompare(x, y) == UnitsLess(CodeUnits[x], CodeUnits[y])

RECURSIVE Insert(_, _)
Insert(sorted, x) ==
    IF sorted = <<>> THEN <<x>>
    ELSE IF SortCompare(x, Head(sorted)) THEN <<x>> \o sorted
    ELSE <<Head(sorted)>> \o Insert(Tail(sorted), x)

RECURSIVE InsertionSort(_)
InsertionSort(strs) ==
    IF strs = <<>> THEN <<>> ELSE Insert(InsertionSort(Tail(strs)), Head(strs))

\* The array left in the order of the input.
sort_none(strs) == strs

\* realTypesArr.sort(): the strings in ascending code-unit order.
sort(strs) == InsertionSort(strs)

\* realTypesCounter: an object's own string keys, in the order they were created.
KeyIndex(counter, key) == {i \in 1..Len(counter) : counter[i][1] = key}

\* The count left as it was when the key exists.
Increment_stuck(counter, realType) ==
    IF KeyIndex(counter, realType) # {}
    THEN counter
    ELSE Append(counter, <<realType, 1>>)

\* realTypesCounter[realType] = count !== undefined ? count + 1 : 1
Increment(counter, realType) ==
    IF KeyIndex(counter, realType) # {}
    THEN LET i == CHOOSE i \in KeyIndex(counter, realType) : TRUE
         IN [counter EXCEPT ![i] = <<realType, counter[i][2] + 1>>]
    ELSE Append(counter, <<realType, 1>>)

RECURSIVE CountAll(_, _)
CountAll(counter, realTypesArr) ==
    IF realTypesArr = <<>> THEN counter
    ELSE CountAll(Increment(counter, Head(realTypesArr)), Tail(realTypesArr))

\* Object.entries(realTypesCounter): a new array of new [key, value] arrays.
Entries(counter) == Dense([i \in 1..Len(counter) |-> Dense(<<Str(counter[i][1]), Num(counter[i][2])>>)])

Throw(e) == [k |-> "throw", error |-> e]

\* Without the guard, for..of over null or undefined throws.
countRealTypes_noGuard(arr) ==
    IF arr.kind # "array" THEN Throw("TypeError")
    ELSE Entries(CountAll(<<>>, sort(getRealTypesOfItems(arr))))

countRealTypes(arr) ==
    IF arr.kind \in {"null", "undefined"} THEN Dense(<<>>)
    ELSE Entries(CountAll(<<>>, sort(getRealTypesOfItems(arr))))

(***************************************************************************)
(* Calls of the pure functions: each action applies one function to args.  *)
(***************************************************************************)
RunnerIdle ==
    /\ script = "none"
    /\ pc = 0
    /\ halted = FALSE
    /\ calls = <<>>
    /\ groups = <<>>
    /\ out = <<>>

\* One call is followed from its operands to its result.
Return(f, value) ==
    /\ fn = "none"
    /\ fn' = f
    /\ ret' = value
    /\ UNCHANGED <<args, script, pc, halted, calls, groups, out>>

\* arr.length, arr.map or for..of on null or undefined throws a TypeError.
OnArray(value) == IF args.kind = "array" THEN value ELSE Throw("TypeError")

Call_getType ==
    /\ args.kind = "array" /\ args.length >= 1
    /\ Return("getType", Str(getType(Elem(args, 1))))

Call_getRealType ==
    /\ args.kind = "array" /\ args.length >= 1
    /\ Return("getRealType", Str(getRealType(Elem(args, 1))))

Call_getTypesOfItems == Return("getTypesOfItems", OnArray(getTypesOfItems(args)))

Call_getRealTypesOfItems ==
    Return("getRealTypesOfItems",
           OnArray(Dense([i \in 1..args.length |-> Str(getRealTypesOfItems(args)[i])])))

Call_allItemsHaveTheSameType ==
    Return("allItemsHaveTheSameType", OnArray(Bool(allItemsHaveTheSameType(args))))

Call_allItemsHaveTheSameType_js ==
    Return("allItemsHaveTheSameType_js", OnArray(Bool(allItemsHaveTheSameType_js(args))))

Call_everyItemHasAUniqueRealType ==
    Return("everyItemHasAUniqueRealType", OnArray(Bool(everyItemHasAUniqueRealType(args))))

Call_countRealTypes == Return("countRealTypes", countRealTypes(args))

CallNext ==
    \/ Call_getType
    \/ Call_getRealType
    \/ Call_getTypesOfItems
    \/ Call_getRealTypesOfItems
    \/ Call_allItemsHaveTheSameType
    \/ Call_allItemsHaveTheSameType_js
    \/ Call_everyItemHasAUniqueRealType
    \/ Call_countRealTypes

\* The fixture of the test script: one value of every real type.
knownTypes ==
    << Prim("boolean"), Number("finite"), Prim("string"), Object(TRUE, {}), Object(FALSE, {}),
       Function("", {}), Undefined, Null, Number("NaN"), Number("Infinity"),
       Object(FALSE, {"Date"}), Object(FALSE, {"RegExp"}), Object(FALSE, {"Set"}),
       Prim("bigint"), Object(FALSE, {"Error"}), Prim("symbol"), Object(FALSE, {"Map"}),
       Object(FALSE, {"ArrayBuffer"}), Object(FALSE, {"Blob"}), Function("GeneratorFunction", {}) >>

\* index.js: the fixture ends with new Set().
knownTypes_js == SubSeq(knownTypes, 1, 13)

KnownValues == {knownTypes_js[i] : i \in 1..Len(knownTypes_js)}

NoCall == fn = "none" /\ ret = Undef

\* Two values of any kind, as a two-element array.
InitValue ==
    /\ args \in {List(2, <<v, w>>) : v \in Values, w \in Values}
    /\ NoCall
    /\ RunnerIdle

\* An array of at most MaxLen of index.js's fixture values, holes included, or no
\* array at all.
InitList ==
    /\ \/ \E len \in 0..MaxLen : \E D \in SUBSET (1..len) : \E e \in [D -> KnownValues] :
             args = List(len, e)
       \/ args \in {NoList("null"), NoList("undefined")}
    /\ NoCall
    /\ RunnerIdle

SpecValue == InitValue /\ [][CallNext]_vars

SpecList == InitList /\ [][CallNext]_vars

Spec == SpecList

(***************************************************************************)
(* Equality helper.                                                        *)
(***************************************************************************)
\* a === b: no coercion; NaN equals nothing; an array equals itself only.
StrictEquals(a, b) ==
    IF a.k # b.k THEN FALSE
    ELSE IF a.k = "NaN" THEN FALSE
    ELSE IF a.k = "array" THEN a.ref # 0 /\ a.ref = b.ref
    ELSE a = b

\* index.ts. Array.prototype.every calls back for the indices present in a only.
RECURSIVE areEqual(_, _)
areEqual(a, b) ==
    IF a.k = "array" /\ b.k = "array"
    THEN /\ a.length = b.length
         /\ \A index \in DOMAIN a.elems : areEqual(a.elems[index], Get(b, index))
    ELSE StrictEquals(a, b)

\* index.js: the elements are compared with ===.
areEqual_js(a, b) ==
    IF a.k = "array" /\ b.k = "array"
    THEN /\ a.length = b.length
         /\ \A index \in DOMAIN a.elems : StrictEquals(a.elems[index], Get(b, index))
    ELSE StrictEquals(a, b)

Call_areEqual ==
    /\ fn = "none"
    /\ fn' = "areEqual"
    /\ ret' = Bool(areEqual(args[1], args[2]))
    /\ UNCHANGED <<args, script, pc, halted, calls, groups, out>>

Call_areEqual_js ==
    /\ fn = "none"
    /\ fn' = "areEqual_js"
    /\ ret' = Bool(areEqual_js(args[1], args[2]))
    /\ UNCHANGED <<args, script, pc, halted, calls, groups, out>>

EqNext == Call_areEqual \/ Call_areEqual_js

EqAtoms == {Undef, NullV, Num(1), NaNV}

\* Arrays of at most n elements of S, holes included, with identities refs.
Arrays(S, n, refs) ==
    UNION {UNION {{Arr(r, len, e) : e \in [D -> S], r \in refs} : D \in SUBSET (1..len)} :
           len \in 0..n}

\* Nested arrays of at most m atoms; operands: atoms and arrays of at most n
\* atoms and nested arrays.
InnerArrays(m) == Arrays(EqAtoms, m, 0..MaxRefs)

Operands(n, m) == EqAtoms \cup Arrays(EqAtoms \cup InnerArrays(m), n, {0})

Nested(x) ==
    IF x.k = "array" THEN {x.elems[i] : i \in {j \in DOMAIN x.elems : x.elems[j].k = "array"}}
    ELSE {}

\* Two references to one array object see one array.
Aliasing(a, b) ==
    \A x, y \in Nested(a) \cup Nested(b) : (x.ref # 0 /\ x.ref = y.ref) => x = y

InitEq ==
    /\ args \in {<<a, b>> : a \in Operands(MaxEqLen, MaxInnerLen), b \in Operands(MaxEqLen, MaxInnerLen)}
    /\ Aliasing(args[1], args[2])
    /\ NoCall
    /\ RunnerIdle

SpecEq == InitEq /\ [][EqNext]_vars

(***************************************************************************)
(* Test runner and console.                                                *)
(***************************************************************************)
\* A template literal, as the sequence of its parts.
Text(parts) == [k |-> "text", parts |-> parts]

\* One call of a console method, at the indentation of the open groups.
Line(method, depth, data) == [method |-> method, depth |-> depth, data |-> data]

\* console.groupEnd(): closes the innermost group, if there is one.
groupEnd(g) == IF g = <<>> THEN <<>> ELSE SubSeq(g, 1, Len(g) - 1)

\* The previous group left open.
testBlock_noGroupEnd(name, g) ==
    [groups |-> Append(g, Text(<<"# ", name, "\n">>)),
     lines |-> <<Line("group", Len(g), Text(<<"# ", name, "\n">>))>>,
     completion |-> "normal"]

\* console.groupEnd(); console.group(`# ${name}\n`): the label is printed at the
\* outer indentation and the group opened.
testBlock(name, g) ==
    [groups |-> Append(groupEnd(g), Text(<<"# ", name, "\n">>)),
     lines |-> <<Line("group", Len(groupEnd(g)), Text(<<"# ", name, "\n">>))>>,
     completion |-> "normal"]

\* The areEqual of the file the runner belongs to.
AreEqualIn(file, a, b) == IF file = "js" THEN areEqual_js(a, b) ELSE areEqual(a, b)

\* A mismatch reported and then thrown.
test_throwing(file, whatWeTest, actualResult, expectedResult, depth) ==
    IF AreEqualIn(file, actualResult, expectedResult)
    THEN [lines |-> <<Line("log", depth, Text(<<"[OK] ", whatWeTest, "\n">>))>>,
          completion |-> "normal"]
    ELSE [lines |-> <<Line("error", depth, Text(<<"[FAIL] ", whatWeTest>>))>>,
          completion |-> "throw"]

test(file, whatWeTest, actualResult, expectedResult, depth) ==
    IF AreEqualIn(file, actualResult, expectedResult)
    THEN [lines |-> <<Line("log", depth, Text(<<"[OK] ", whatWeTest, "\n">>))>>,
          completion |-> "normal"]
    ELSE [lines |-> <<Line("error", depth, Text(<<"[FAIL] ", whatWeTest>>)),
                      Line("debug", depth, Text(<<"Expected:">>)),
                      Line("debug", depth, expectedResult),
                      Line("debug", depth, Text(<<"Actual:">>)),
                      Line("debug", depth, actualResult),
                      Line("log", depth, Text(<<"">>))>>,
          completion |-> "normal"]

BlockCall(name) == [op |-> "testBlock", name |-> name, actual |-> Undef, expected |-> Undef]

TestCall(whatWeTest, actualResult, expectedResult) ==
    [op |-> "test", name |-> whatWeTest, actual |-> actualResult, expected |-> expectedResult]

FileOf(s) == IF s \in {"index.js", "any.js"} THEN "js" ELSE "ts"

\* A statement that throws ends the script; otherwise the next statement runs.
Execute(call, result) ==
    /\ out' = out \o result.lines
    /\ halted' = (result.completion = "throw")
    /\ calls' = Append(calls, call)
    /\ pc' = pc + 1
    /\ UNCHANGED <<args, fn, ret, script>>

Run_testBlock(call) ==
    /\ call.op = "testBlock"
    /\ groups' = testBlock(call.name, groups).groups
    /\ Execute(call, testBlock(call.name, groups))

Run_test(call) ==
    /\ call.op = "test"
    /\ groups' = groups
    /\ Execute(call, test(FileOf(script), call.name, call.actual, call.expected, Len(groups)))

(***************************************************************************)
(* The statements of the two files.                                        *)
(***************************************************************************)
Of(seq) == List(Len(seq), seq)

StrArr(strs) == Dense([i \in 1..Len(strs) |-> Str(strs[i])])

\* index.js: the functions left to be written return undefined.
getRealTypesOfItems_js(arr) == Undef

everyItemHasAUniqueRealType_js(arr) == Undef

countRealTypes_js(arr) == Undef

Statements_ts ==
    << BlockCall("getType"),
       TestCall("Boolean", Str(getType(Prim("boolean"))), Str("boolean")),
       TestCall("Number", Str(getType(Number("finite"))), Str("number")),
       TestCall("String", Str(getType(Prim("string"))), Str("string")),
       TestCall("Array", Str(getType(Object(TRUE, {}))), Str("object")),
       TestCall("Object", Str(getType(Object(FALSE, {}))), Str("object")),
       TestCall("Function", Str(getType(Function("", {}))), Str("function")),
       TestCall("Undefined", Str(getType(Undefined)), Str("undefined")),
       TestCall("Null", Str(getType(Null)), Str("object")),
       BlockCall("allItemsHaveTheSameType"),
       TestCall("All values are numbers", Bool(allItemsHaveTheSameType(Of(<<Number("finite"), Number("finite"), Number("finite")>>))), Bool(TRUE)),
       TestCall("All values are strings", Bool(allItemsHaveTheSameType(Of(<<Prim("string"), Prim("string"), Prim("string")>>))), Bool(TRUE)),
       TestCall("All values are strings but wait", Bool(allItemsHaveTheSameType(Of(<<Prim("string"), Object(FALSE, {}), Prim("string")>>))), Bool(FALSE)),
       TestCall("Values like a number", Bool(allItemsHaveTheSameType(Of(<<Number("finite"), Number("NaN"), Number("Infinity")>>))), Bool(TRUE)),
       TestCall("Values like an object", Bool(allItemsHaveTheSameType(Of(<<Object(FALSE, {})>>))), Bool(TRUE)),
       BlockCall("getTypesOfItems VS getRealTypesOfItems"),
       TestCall("Check basic types", getTypesOfItems(Of(knownTypes)), StrArr(<<"boolean", "number", "string", "object", "object", "function", "undefined", "object", "number", "number", "object", "object", "object", "bigint", "object", "symbol", "object", "object", "object", "function">>)),
       TestCall("Check real types", StrArr(getRealTypesOfItems(Of(knownTypes))), StrArr(<<"boolean", "number", "string", "array", "object", "function", "undefined", "null", "NaN", "Infinity", "date", "regexp", "set", "bigint", "error", "symbol", "map", "buffer", "blob", "generator function">>)),
       BlockCall("everyItemHasAUniqueRealType"),
       TestCall("All value types in the array are unique", Bool(everyItemHasAUniqueRealType(Of(<<Prim("boolean"), Number("finite"), Prim("string")>>))), Bool(TRUE)),
       TestCall("Two values have the same type", Bool(everyItemHasAUniqueRealType(Of(<<Prim("boolean"), Number("finite"), Prim("boolean")>>))), Bool(FALSE)),
       TestCall("There are no repeated types in knownTypes", Bool(everyItemHasAUniqueRealType(Of(knownTypes))), Bool(TRUE)),
       BlockCall("countRealTypes"),
       TestCall("Count unique types of array items", countRealTypes(Of(<<Prim("boolean"), Null, Prim("boolean"), Prim("boolean"), Object(FALSE, {})>>)), Dense(<<Dense(<<Str("boolean"), Num(3)>>), Dense(<<Str("null"), Num(1)>>), Dense(<<Str("object"), Num(1)>>)>>)),
       TestCall("Counted unique types are sorted", countRealTypes(Of(<<Object(FALSE, {}), Null, Prim("boolean"), Prim("boolean"), Prim("boolean")>>)), Dense(<<Dense(<<Str("boolean"), Num(3)>>), Dense(<<Str("null"), Num(1)>>), Dense(<<Str("object"), Num(1)>>)>>)),
       BlockCall("string literal VS String()"),
       TestCall("All values are strings", Bool(allItemsHaveTheSameType(Of(<<Prim("string"), Prim("string")>>))), Bool(TRUE)),
       BlockCall("areEqual"),
       TestCall("Arrays are not equal", Bool(areEqual(Dense(<<Num(1), NullV, Num(3)>>), Dense(<<Num(1), Undef, Num(3)>>))), Bool(FALSE)),
       BlockCall("Arrays"),
       TestCall("All values are arrays", Bool(allItemsHaveTheSameType(Of(<<Object(TRUE, {}), Object(TRUE, {}), Object(TRUE, {})>>))), Bool(TRUE)) >>

Statements_js ==
    << BlockCall("getType"),
       TestCall("Boolean", Str(getType(Prim("boolean"))), Str("boolean")),
       TestCall("Number", Str(getType(Number("finite"))), Str("number")),
       TestCall("String", Str(getType(Prim("string"))), Str("string")),
       TestCall("Array", Str(getType(Object(TRUE, {}))), Str("object")),
       TestCall("Object", Str(getType(Object(FALSE, {}))), Str("object")),
       TestCall("Function", Str(getType(Function("", {}))), Str("function")),
       TestCall("Undefined", Str(getType(Undefined)), Str("undefined")),
       TestCall("Null", Str(getType(Null)), Str("object")),
       BlockCall("allItemsHaveTheSameType"),
       TestCall("All values are numbers", Bool(allItemsHaveTheSameType_js(Of(<<Number("finite"), Number("finite"), Number("finite")>>))), Bool(TRUE)),
       TestCall("All values are strings", Bool(allItemsHaveTheSameType_js(Of(<<Prim("string"), Prim("string"), Prim("string")>>))), Bool(TRUE)),
       TestCall("All values are strings but wait", Bool(allItemsHaveTheSameType_js(Of(<<Prim("string"), Object(FALSE, {}), Prim("string")>>))), Bool(FALSE)),
       TestCall("Values like a number", Bool(allItemsHaveTheSameType_js(Of(<<Number("finite"), Number("NaN"), Number("Infinity")>>))), Bool(TRUE)),
       TestCall("Values like an object", Bool(allItemsHaveTheSameType_js(Of(<<Object(FALSE, {})>>))), Bool(TRUE)),
       BlockCall("getTypesOfItems VS getRealTypesOfItems"),
       TestCall("Check basic types", getTypesOfItems_js(Of(knownTypes_js)), StrArr(<<"boolean", "number", "string", "object", "object", "function", "undefined", "object", "number", "number", "object", "object", "object">>)),
       TestCall("Check real types", getRealTypesOfItems_js(Of(knownTypes_js)), StrArr(<<"boolean", "number", "string", "array", "object", "function", "undefined", "null", "NaN", "Infinity", "date", "regexp", "set">>)),
       BlockCall("everyItemHasAUniqueRealType"),
       TestCall("All value types in the array are unique", everyItemHasAUniqueRealType_js(Of(<<Prim("boolean"), Number("finite"), Prim("string")>>)), Bool(TRUE)),
       TestCall("Two values have the same type", everyItemHasAUniqueRealType_js(Of(<<Prim("boolean"), Number("finite"), Prim("boolean")>>)), Bool(FALSE)),
       TestCall("There are no repeated types in knownTypes", everyItemHasAUniqueRealType_js(Of(knownTypes_js)), Bool(TRUE)),
       BlockCall("countRealTypes"),
       TestCall("Count unique types of array items", countRealTypes_js(Of(<<Prim("boolean"), Null, Prim("boolean"), Prim("boolean"), Object(FALSE, {})>>)), Dense(<<Dense(<<Str("boolean"), Num(3)>>), Dense(<<Str("null"), Num(1)>>), Dense(<<Str("object"), Num(1)>>)>>)),
       TestCall("Counted unique types are sorted", countRealTypes_js(Of(<<Object(FALSE, {}), Null, Prim("boolean"), Prim("boolean"), Prim("boolean")>>)), Dense(<<Dense(<<Str("boolean"), Num(3)>>), Dense(<<Str("null"), Num(1)>>), Dense(<<Str("object"), Num(1)>>)>>)) >>

Statements(s) == IF s = "index.js" THEN Statements_js ELSE Statements_ts

Script_testBlock ==
    /\ script \in {"index.ts", "index.js"}
    /\ ~halted
    /\ pc < Len(Statements(script))
    /\ Run_testBlock(Statements(script)[pc + 1])

Script_test ==
    /\ script \in {"index.ts", "index.js"}
    /\ ~halted
    /\ pc < Len(Statements(script))
    /\ Run_test(Statements(script)[pc + 1])

\* Any calls: two group names, one label, and operands that are equal, different,
\* or equal only element by element.
AnyNames == {"a", "b"}
AnyOperands == {Bool(TRUE), Undef, Dense(<<Dense(<<Str("null"), Num(1)>>)>>)}

Any_testBlock ==
    /\ script \in {"any.ts", "any.js"}
    /\ ~halted
    /\ pc < MaxCalls
    /\ \E name \in AnyNames : Run_testBlock(BlockCall(name))

Any_test ==
    /\ script \in {"any.ts", "any.js"}
    /\ ~halted
    /\ pc < MaxCalls
    /\ \E a \in AnyOperands, e \in AnyOperands : Run_test(TestCall("t", a, e))

RunNext == Script_testBlock \/ Script_test \/ Any_testBlock \/ Any_test

InitRun ==
    /\ script \in {"index.ts", "index.js", "any.ts", "any.js"}
    /\ pc = 0
    /\ halted = FALSE
    /\ calls = <<>>
    /\ groups = <<>>
    /\ out = <<>>
    /\ args = NoList("undefined")
    /\ NoCall

SpecRun == InitRun /\ [][RunNext]_vars

(***************************************************************************)
(* Properties of the classifier, checked under SpecValue.                  *)
(***************************************************************************)
CheckTags ==
    <<"array", "date", "regexp", "set", "map", "error", "buffer", "blob",
      "NaN", "null", "Infinity", "generator function">>

CheckClasses == <<"Date", "RegExp", "Set", "Map", "Error", "ArrayBuffer", "Blob">>

\* Whether the check that yields CheckTags[i] is true of v.
Matches(i, v) ==
    CASE CheckTags[i] = "array" -> v.isArray
      [] CheckTags[i] \in {"date", "regexp", "set", "map", "error", "buffer", "blob"} ->
            CheckClasses[i - 1] \in v.protos
      [] CheckTags[i] = "NaN" -> v.typ = "number" /\ v.num = "NaN"
      [] CheckTags[i] = "null" -> v.isNull
      [] CheckTags[i] = "Infinity" -> v.typ = "number" /\ v.num = "Infinity"
      [] CheckTags[i] = "generator function" ->
            v.typ = "function" /\ v.name = "GeneratorFunction"

Matching(v) == {i \in 1..Len(CheckTags) : Matches(i, v)}

First(S) == CHOOSE i \in S : \A j \in S : i <= j

\* C1: getRealType returns the tag of the first check, in the fixed order array, Date,
\* RegExp, Set, Map, Error, ArrayBuffer, Blob, NaN, null, Infinity, GeneratorFunction,
\* that is true of the value, and getType(value) when none is; it returns a tag for
\* every value.
C1_FirstMatchWins ==
    fn = "getRealType" =>
        LET v == Elem(args, 1)
        IN /\ ret.k = "string"
           /\ ret.s \in RealTypeTags
           /\ ret.s = IF Matching(v) = {} THEN getType(v) ELSE CheckTags[First(Matching(v))]

\* A value two checks are true of (a Date whose chain also holds RegExp.prototype).
C1_Witness ==
    /\ fn = "getRealType"
    /\ {"Date", "RegExp"} \subseteq Elem(args, 1).protos
    /\ ~Elem(args, 1).isArray
    /\ ret = Str("date")

InstanceTags == {"date", "regexp", "set", "map", "error", "buffer", "blob"}

RetTag(i) == Get(ret, i).s

\* C6: equal real-type tags imply equal coarse tags, and a real-type tag that is a
\* coarse tag name is the value's coarse tag.
C6_RealTypeDeterminesType ==
    fn = "getRealTypesOfItems" =>
        /\ \A i, j \in 1..args.length :
              RetTag(i) = RetTag(j) => getType(Elem(args, i)) = getType(Elem(args, j))
        /\ \A i \in 1..args.length :
              RetTag(i) \in TypeTags => RetTag(i) = getType(Elem(args, i))

\* C6 as amended: equal real-type tags imply equal coarse tags unless the common tag
\* is an instanceof tag, which goes with the coarse tag object or function; and a
\* real-type tag that is a coarse tag name is the value's coarse tag.
C6_RealTypeDeterminesTypeButForInstances ==
    fn = "getRealTypesOfItems" =>
        /\ \A i, j \in 1..args.length :
              RetTag(i) = RetTag(j) =>
                  \/ getType(Elem(args, i)) = getType(Elem(args, j))
                  \/ /\ RetTag(i) \in InstanceTags
                     /\ {getType(Elem(args, i)), getType(Elem(args, j))} = {"object", "function"}
        /\ \A i \in 1..args.length :
              RetTag(i) \in TypeTags => RetTag(i) = getType(Elem(args, i))

\* Two values of one real type: a Date and a callable whose chain holds Date.prototype.
C6_Witness ==
    /\ fn = "getRealTypesOfItems"
    /\ RetTag(1) = "date" /\ RetTag(2) = "date"
    /\ getType(Elem(args, 1)) = "object"
    /\ getType(Elem(args, 2)) = "function"

(***************************************************************************)
(* Properties of the list analyzers, checked under SpecList.               *)
(***************************************************************************)
Positions(arr) == 1..arr.length

CountOf(arr, t) == Cardinality({i \in Positions(arr) : getRealType(Elem(arr, i)) = t})

EntryTag(i) == Get(Get(ret, i), 1)

EntryCount(i) == Get(Get(ret, i), 2)

RECURSIVE SumCounts(_)
SumCounts(n) == IF n = 0 THEN 0 ELSE EntryCount(n).n + SumCounts(n - 1)

\* C2: countRealTypes(L) holds a pair (t, n) exactly when an element of L has real
\* type t, and n is then the number of such elements; every count is at least 1 and
\* the counts sum to the length of L.
C2_CountsPerRealType ==
    (fn = "countRealTypes" /\ args.kind = "array") =>
        /\ ret.k = "array"
        /\ \A i \in 1..ret.length : Get(ret, i).k = "array" /\ Get(ret, i).length = 2
        /\ \A t \in RealTypeTags :
              LET E == {i \in 1..ret.length : EntryTag(i) = Str(t)}
              IN IF CountOf(args, t) = 0
                 THEN E = {}
                 ELSE /\ Cardinality(E) = 1
                      /\ \A i \in E : EntryCount(i) = Num(CountOf(args, t))
        /\ \A i \in 1..ret.length : EntryCount(i).n >= 1
        /\ SumCounts(ret.length) = args.length

\* A list with a repeated real type and a second one.
C2_Witness ==
    /\ fn = "countRealTypes"
    /\ args.kind = "array"
    /\ ret.length >= 2
    /\ \E i \in 1..ret.length : EntryCount(i).n >= 2

IndexPermutations(n) == {p \in [1..n -> 1..n] : \A i, j \in 1..n : p[i] = p[j] => i = j}

\* The array whose index i holds what index p[i] of arr holds (a hole for a hole).
Permuted(arr, p) ==
    List(arr.length, [i \in {j \in Positions(arr) : p[j] \in DOMAIN arr.elems} |-> arr.elems[p[i]]])

\* C3: the tags of countRealTypes(L) are strictly increasing in the lexicographic
\* order of their code units, and every permutation of L yields the same pairs.
C3_SortedAndOrderIndependent ==
    (fn = "countRealTypes" /\ args.kind = "array") =>
        /\ \A i \in 1..ret.length : \A j \in 1..ret.length :
              i < j => UnitsLess(CodeUnits[EntryTag(i).s], CodeUnits[EntryTag(j).s])
        /\ \A p \in IndexPermutations(args.length) : countRealTypes(Permuted(args, p)) = ret

\* A list whose real types come in descending order.
C3_Witness ==
    /\ fn = "countRealTypes"
    /\ args.kind = "array"
    /\ args.length >= 2
    /\ ret.length = args.length
    /\ \A i \in 1..(args.length - 1) :
          UnitsLess(CodeUnits[getRealType(Elem(args, i + 1))], CodeUnits[getRealType(Elem(args, i))])

SameCoarseTag(arr) ==
    \A i, j \in Positions(arr) : getType(Elem(arr, i)) = getType(Elem(arr, j))

\* C4: allItemsHaveTheSameType(L) is true exactly when L is empty or all elements of
\* L have the same coarse tag.
C4_SameCoarseTag ==
    (fn = "allItemsHaveTheSameType" /\ args.kind = "array") =>
        ret = Bool(args.length = 0 \/ SameCoarseTag(args))

\* The same statement of index.js's allItemsHaveTheSameType, and of index.ts's on
\* arrays without holes.
AllSameType_js_and_dense ==
    /\ (fn = "allItemsHaveTheSameType_js" /\ args.kind = "array") =>
          ret = Bool(args.length = 0 \/ SameCoarseTag(args))
    /\ (fn = "allItemsHaveTheSameType" /\ args.kind = "array"
          /\ DOMAIN args.elems = Positions(args)) =>
          ret = Bool(args.length = 0 \/ SameCoarseTag(args))

\* C5: everyItemHasAUniqueRealType(L) is true exactly when no two positions of L hold
\* values of the same real type; it is true of the empty list.
C5_UniqueRealTypes ==
    (fn = "everyItemHasAUniqueRealType" /\ args.kind = "array") =>
        ret = Bool(\A i, j \in Positions(args) :
                      getRealType(Elem(args, i)) = getRealType(Elem(args, j)) => i = j)

\* Values of one coarse tag and distinct real types: the result is true.
C5_Witness ==
    /\ fn = "everyItemHasAUniqueRealType"
    /\ args.kind = "array"
    /\ args.length >= 2
    /\ SameCoarseTag(args)
    /\ ret = Bool(TRUE)

\* C7: countRealTypes returns an empty array for the empty list, for null and for
\* undefined, and does not throw.
C7_EmptyForNoInput ==
    (fn = "countRealTypes" /\ (args.kind \in {"null", "undefined"} \/ args.length = 0)) =>
        ret = Dense(<<>>)

\* countRealTypes(null) has returned.
C7_Witness ==
    /\ fn = "countRealTypes"
    /\ args.kind = "null"
    /\ ret = Dense(<<>>)

(***************************************************************************)
(* Properties of the equality helper, checked under SpecEq.                *)
(***************************************************************************)
RECURSIVE ElementwiseEqual(_, _)
ElementwiseEqual(a, b) ==
    IF a.k = "array" /\ b.k = "array"
    THEN /\ a.length = b.length
         /\ \A i \in 1..a.length : ElementwiseEqual(Get(a, i), Get(b, i))
    ELSE StrictEquals(a, b)

\* C8: areEqual(a, b) of two arrays is true iff they have the same length and at
\* every position the two elements are areEqual, recursively; of anything else it is
\* a === b.
C8_ElementwiseEquality ==
    fn \in {"areEqual", "areEqual_js"} => ret = Bool(ElementwiseEqual(args[1], args[2]))

RECURSIVE NoHoles(_)
NoHoles(x) ==
    x.k = "array" => (DOMAIN x.elems = 1..x.length /\ \A i \in 1..x.length : NoHoles(x.elems[i]))

\* Where the two versions do compute that equality: index.ts when the first operand
\* has no holes, index.js when moreover it holds no array.
AreEqual_withoutHoles ==
    /\ (fn = "areEqual" /\ NoHoles(args[1])) => ret = Bool(ElementwiseEqual(args[1], args[2]))
    /\ (fn = "areEqual_js" /\ NoHoles(args[1]) /\ Nested(args[1]) = {}) =>
          ret = Bool(ElementwiseEqual(args[1], args[2]))

\* index.js finds two arrays of equal nested arrays different.
AreEqual_js_Shallow ==
    ~ /\ fn = "areEqual_js"
      /\ NoHoles(args[1]) /\ NoHoles(args[2])
      /\ ElementwiseEqual(args[1], args[2])
      /\ ret = Bool(FALSE)

(***************************************************************************)
(* Properties of the test runner, checked under SpecRun.                   *)
(***************************************************************************)
IsTest(c) == c.op = "test"

IsBlock(c) == c.op = "testBlock"

Tests(cs) == SelectSeq(cs, IsTest)

Blocks(cs) == SelectSeq(cs, IsBlock)

IsOutcome(line) == line.data.k = "text" /\ line.data.parts[1] \in {"[OK] ", "[FAIL] "}

Outcomes == {i \in 1..Len(out) : IsOutcome(out[i])}

\* The n-th smallest member of S.
Nth(S, n) == CHOOSE i \in S : Cardinality({j \in S : j < i}) = n - 1

FixedScript == script \in {"index.ts", "index.js"}

\* C9: every test call emits exactly one outcome, a pass line when areEqual(actual,
\* expected) and otherwise a fail line followed by the expected and the actual value;
\* no call stops the run, so the statements of the script are all executed, in order.
C9_OneOutcomePerTest ==
    /\ ~halted
    /\ pc = Len(calls)
    /\ Cardinality(Outcomes) = Len(Tests(calls))
    /\ \A n \in 1..Len(Tests(calls)) :
          LET c == Tests(calls)[n]
              i == Nth(Outcomes, n)
          IN IF AreEqualIn(FileOf(script), c.actual, c.expected)
             THEN /\ out[i].method = "log"
                  /\ out[i].data = Text(<<"[OK] ", c.name, "\n">>)
             ELSE /\ out[i].method = "error"
                  /\ out[i].data = Text(<<"[FAIL] ", c.name>>)
                  /\ i + 4 <= Len(out)
                  /\ out[i + 1].data = Text(<<"Expected:">>)
                  /\ out[i + 2].data = c.expected
                  /\ out[i + 3].data = Text(<<"Actual:">>)
                  /\ out[i + 4].data = c.actual
    /\ FixedScript =>
          /\ calls = SubSeq(Statements(script), 1, pc)
          /\ pc < Len(Statements(script)) => ENABLED RunNext

\* index.js has run to its last statement, past the tests that failed.
C9_Witness ==
    /\ script = "index.js"
    /\ pc = Len(Statements_js)
    /\ Cardinality({i \in Outcomes : out[i].method = "error"}) >= 2
    /\ Cardinality({i \in Outcomes : out[i].method = "log"}) >= 2

\* C10: at most one console group is open; once testBlock has been called exactly one
\* is, the one the most recent testBlock call named; hence no test call changes it.
C10_OneOpenGroup ==
    /\ Len(groups) <= 1
    /\ IF Blocks(calls) = <<>>
       THEN groups = <<>>
       ELSE groups = <<Text(<<"# ", Blocks(calls)[Len(Blocks(calls))].name, "\n">>)>>

\* A second testBlock, of another name, and then a test.
C10_Witness ==
    /\ Len(Blocks(calls)) >= 2
    /\ Blocks(calls)[1].name # Blocks(calls)[2].name
    /\ IsTest(calls[Len(calls)])
    /\ Len(groups) = 1

\* Every test of index.ts passes; in index.js the tests of the functions left to
\* be written fail, six of them.
Scripts_Outcomes ==
    /\ script = "index.ts" => \A i \in Outcomes : out[i].method = "log"
    /\ (script = "index.js" /\ pc = Len(Statements_js)) =>
          Cardinality({i \in Outcomes : out[i].method = "error"}) = 6

====
